---- MODULE Spec2Model ----
(***************************************************************************)
(* Model of the Network loader pool (src/src/network.ts): a queue of       *)
(* pending images, a bounded set of in-flight Loaders, three counters and  *)
(* the dispatch cycle that moves images from the queue to Loaders.         *)
(*                                                                         *)
(* The Loader and the CacheImage classes are collaborators whose code is   *)
(* not part of the sources; they are modelled by their contract: a Loader  *)
(* ends in exactly one of load, error, timeout, abort, and after abort()   *)
(* only abort can follow.  The loader's start and progress events are      *)
(* forwarded to the image and touch no Network state; they are left out.   *)
(*                                                                         *)
(* The image with url ImgUrl is modelled in detail (class Img): its hidden *)
(* bitmap element, its blob URL, its flags, its set of RenderRequests and  *)
(* the events it delivers.  Spec explores the Network over all images,     *)
(* SpecImg explores the life of that one image together with its fetch.    *)
(***************************************************************************)
EXTENDS Integers, Sequences, FiniteSets, TLC

\* ---------------------------------------------------------------- bounds
NumImages == 3      \* distinct images (URLs) the callers hold
MaxAdds   == 3      \* total number of enqueues (imageQueue.set) in a run
MaxProcs  == 2      \* largest `loaders` argument given to the constructor
NumRequests == 2    \* RenderRequest objects the callers hold for the image
MaxSubs   == 2      \* most registrations of one request without an unregister
MaxSide   == 2      \* largest natural width / height of the decoded bitmap

Urls == 1..NumImages
NoLoader == 0
Requests == 1..NumRequests
Sides == 1..MaxSide
\* the url of the image that is modelled in detail
ImgUrl == 1
\* element.src = ""
NoSrc == 0

VARIABLES
  imageQueue,     \* Map<url, image> in insertion order: a sequence of urls
  processes,      \* Map<url, {image, loader}>: url -> loader id, NoLoader if absent
  maxProcesses,
  loadedCount,
  canceledCount,
  erroredCount,
  loaders,        \* every Loader constructed so far: <<[url, state]>>, id = index
  overflow,       \* the Controller's reply to check-memory
  loaded,         \* image.loaded, per url
  errorNotices,   \* number of image.onLoadError() calls, per url
  blobs,          \* number of image.assignBlob() calls, per url
  loadEvents,     \* number of "load" events Network has emitted upward
  enqueued,       \* number of imageQueue.set calls so far
  lastOp,         \* the operation or handler that ran last
  staleCheck,     \* the last step asked check-memory before delivering a blob
  img,            \* the Img of url ImgUrl
  requests        \* the RenderRequests: [ready, rendered] per request

vars == <<imageQueue, processes, maxProcesses, loadedCount, canceledCount,
          erroredCount, loaders, overflow, loaded, errorNotices, blobs,
          loadEvents, enqueued, lastOp, staleCheck, img, requests>>

\* ------------------------------------------------------------- helpers
Range(s) == {s[i] : i \in 1..Len(s)}

\* Map.has(url) on the queue / on the in-flight map
QueueHas(q, u) == u \in Range(q)
ProcessesHas(p, u) == p[u] # NoLoader

\* Map.size of the in-flight map
ProcessesSize(p) == Cardinality({u \in Urls : p[u] # NoLoader})

\* Map.delete(url) on the queue: the other entries keep their order
QueueDelete(q, u) == SelectSeq(q, LAMBDA x : x # u)

\* The part of the Network state the dispatch cycle works on
NetState == [imageQueue |-> imageQueue, processes |-> processes, loaders |-> loaders]

\* canLoad() that ignores the Controller's reply
canLoadAlways(ovf) == TRUE

\* canLoad(): emits check-memory, the Controller sets memory.overflow
canLoad(ovf) == ~ovf

\* processImage(image): construct a Loader, register it, start the fetch
processImage(s, u) ==
  [s EXCEPT !.loaders = Append(@, [url |-> u, state |-> "loading"]),
            !.processes[u] = Len(s.loaders) + 1]

\* update() whose loop does not re-check the size of the in-flight map
RECURSIVE UpdateLoopNoCap(_, _, _)
UpdateLoopNoCap(s, max, ovf) ==
  IF s.imageQueue = <<>> THEN s
  ELSE IF ~canLoad(ovf) THEN s
  ELSE LET u == Head(s.imageQueue)
           t == processImage(s, u)
       IN UpdateLoopNoCap([t EXCEPT !.imageQueue = QueueDelete(@, u)], max, ovf)

\* update() that takes the most recently inserted entry first
RECURSIVE UpdateLoopNewestFirst(_, _, _)
UpdateLoopNewestFirst(s, max, ovf) ==
  IF s.imageQueue = <<>> THEN s
  ELSE IF ProcessesSize(s.processes) >= max THEN s
  ELSE IF ~canLoad(ovf) THEN s
  ELSE LET u == s.imageQueue[Len(s.imageQueue)]
           t == processImage(s, u)
       IN UpdateLoopNewestFirst([t EXCEPT !.imageQueue = QueueDelete(@, u)], max, ovf)

\* The for-of loop of update(): entries are visited in insertion order
RECURSIVE UpdateLoop(_, _, _)
UpdateLoop(s, max, ovf) ==
  IF s.imageQueue = <<>> THEN s
  ELSE IF ProcessesSize(s.processes) >= max THEN s
  ELSE IF ~canLoad(ovf) THEN s
  ELSE LET u == Head(s.imageQueue)
           t == processImage(s, u)
       IN UpdateLoop([t EXCEPT !.imageQueue = QueueDelete(@, u)], max, ovf)

\* update(): the dispatch cycle
Update(s, max, ovf) ==
  IF ProcessesSize(s.processes) >= max THEN s
  ELSE UpdateLoop(s, max, ovf)

\* onDone that frees the slot but does not call update()
OnDoneNoUpdate(s, id, ev, max, ovf) ==
  [s EXCEPT !.loaders[id].state = ev, !.processes[s.loaders[id].url] = NoLoader]

\* onDone of a loader: drop listeners (the loader is finished with the
\* given terminal event), free the slot of its url, re-enter the cycle
OnDone(s, id, ev, max, ovf) ==
  LET u == s.loaders[id].url
      t == [s EXCEPT !.loaders[id].state = ev, !.processes[u] = NoLoader]
  IN Update(t, max, ovf)

Op(name, u) == [op |-> name, url |-> u]


\* ----------------------------------------------------------------- Img
\* new Img(props): fields as initialised, the loadend listener registered
NewImg ==
  [renderRequests |-> {},
   subs |-> [r \in Requests |-> 0], \* #onRendered listeners on r's "rendered"
   gotSize |-> FALSE,
   decoded |-> FALSE,
   bytesUncompressed |-> 0,
   blob |-> FALSE,                  \* this.blob holds the fetched bytes
   onload |-> FALSE,                \* element.onload / element.onerror are set
   src |-> NoSrc,                   \* element.src: NoSrc or a blob URL id
   urls |-> 0,                      \* blob URLs created so far, ids 1..urls
   revoked |-> {},                  \* blob URLs revoked so far
   decoding |-> FALSE,              \* the element has a decode outcome to report
   listeners |-> TRUE,              \* listeners on the Img: #onLoadEnd, observers
   cleared |-> FALSE,               \* clear() has been called
   seen |-> {},                     \* event types delivered to the observers
   delivered |-> <<>>]              \* events delivered by the last step

\* emitter: on() adds a listener, off() takes one listener out
on(n) == n + 1
off(n) == IF n > 0 THEN n - 1 ELSE 0

\* emit(type): reaches the observers only while listeners are registered
emit(s, ev) ==
  IF s.listeners
  THEN [s EXCEPT !.seen = @ \cup {ev}, !.delivered = Append(@, ev)]
  ELSE s

\* removeAllListeners()
removeAllListeners(s) == [s EXCEPT !.listeners = FALSE]

\* URL.createObjectURL(blob): a fresh blob URL
createObjectURL(s) == s.urls + 1

\* URL.revokeObjectURL(url): releases url if it is a blob URL
revokeObjectURL(s, url) ==
  IF url \in 1..s.urls THEN [s EXCEPT !.revoked = @ \cup {url}] ELSE s

\* getBytesVideo(size)
getBytesVideo(size) == size.width * size.height * 4

\* getBytesRam(): bytes is the compressed size, known once the blob is there
getBytesRam(s, bytes) == bytes + (IF s.decoded THEN s.bytesUncompressed ELSE 0)

\* registerRequest(request)
registerRequest(s, r) ==
  emit([s EXCEPT !.renderRequests = @ \cup {r}, !.subs[r] = on(@)],
       "render-request-added")

\* unregisterRequest(request) that does not take the listener off
unregisterRequestNoOff(s, r) ==
  emit([s EXCEPT !.renderRequests = @ \ {r}], "render-request-removed")

\* unregisterRequest(request)
unregisterRequest(s, r) ==
  emit([s EXCEPT !.subs[r] = off(@), !.renderRequests = @ \ {r}],
       "render-request-removed")

\* the for-of loop of clear() over renderRequests
RECURSIVE UnregisterAll(_)
UnregisterAll(s) ==
  IF s.renderRequests = {} THEN s
  ELSE UnregisterAll(unregisterRequest(s, CHOOSE r \in s.renderRequests : TRUE))

\* clear() that leaves bytesUncompressed as it is
clearKeepsBytes(s) ==
  LET a == [s EXCEPT !.onload = FALSE, !.src = NoSrc, !.gotSize = FALSE]
      b == revokeObjectURL(a, a.src)
      c == UnregisterAll(b)
      d == emit(c, "clear")
  IN [removeAllListeners(d) EXCEPT !.cleared = TRUE]

\* clear() that emits "clear" before it unregisters the requests
clearEmitsFirst(s) ==
  LET a == [s EXCEPT !.onload = FALSE, !.src = NoSrc,
                     !.gotSize = FALSE, !.bytesUncompressed = 0]
      b == revokeObjectURL(a, a.src)
      c == emit(b, "clear")
      d == UnregisterAll(c)
  IN [removeAllListeners(d) EXCEPT !.cleared = TRUE]

\* clear() without removeAllListeners()
clearKeepsListeners(s) ==
  LET a == [s EXCEPT !.onload = FALSE, !.src = NoSrc,
                     !.gotSize = FALSE, !.bytesUncompressed = 0]
      b == revokeObjectURL(a, a.src)
      c == UnregisterAll(b)
      d == emit(c, "clear")
  IN [d EXCEPT !.cleared = TRUE]

\* clear() that leaves element.onload and element.onerror set
clearKeepsHandlers(s) ==
  LET a == [s EXCEPT !.src = NoSrc,
                     !.gotSize = FALSE, !.bytesUncompressed = 0]
      b == revokeObjectURL(a, a.src)
      c == UnregisterAll(b)
      d == emit(c, "clear")
  IN [removeAllListeners(d) EXCEPT !.cleared = TRUE]

\* clear()
clear(s) ==
  LET a == [s EXCEPT !.onload = FALSE, !.src = NoSrc,
                     !.gotSize = FALSE, !.bytesUncompressed = 0]
      b == revokeObjectURL(a, a.src)
      c == UnregisterAll(b)
      d == emit(c, "clear")
  IN [removeAllListeners(d) EXCEPT !.cleared = TRUE]

\* #onLoadEnd()
onLoadEnd(s) ==
  [s EXCEPT !.onload = TRUE, !.src = createObjectURL(s),
            !.urls = createObjectURL(s), !.decoding = TRUE]

\* #onBlobAssigned: element.onload
onBlobAssigned(s, size) ==
  emit([s EXCEPT !.onload = FALSE, !.gotSize = TRUE,
                 !.bytesUncompressed = getBytesVideo(size)], "size")

\* #onBlobError: element.onerror
onBlobError(s) == emit([s EXCEPT !.onload = FALSE], "blob-error")

\* #onRendered: listener on a request's "rendered"
onRendered(s) == emit([s EXCEPT !.decoded = TRUE], "render-request-rendered")

\* a request's "rendered" event calls each registered #onRendered listener
RECURSIVE EmitRendered(_, _)
EmitRendered(s, n) == IF n = 0 THEN s ELSE EmitRendered(onRendered(s), n - 1)

\* the fetched bytes reach the image: blob set, "loadend" emitted; the
\* #onLoadEnd listener runs if it is still registered
deliverBlob(s) ==
  LET a == [s EXCEPT !.blob = TRUE]
  IN IF a.listeners THEN emit(onLoadEnd(a), "loadend") ELSE a

\* start of a step: nothing delivered yet
Fresh(s) == [s EXCEPT !.delivered = <<>>]

\* update() gets as far as canLoad(): a free slot and a pending image
ConsultsMemory(s, max) ==
  ProcessesSize(s.processes) < max /\ s.imageQueue # <<>>

\* --------------------------------------------------------------- Init
Init ==
  /\ imageQueue = <<>>
  /\ processes = [u \in Urls |-> NoLoader]
  /\ maxProcesses \in 0..MaxProcs
  /\ loadedCount = 0
  /\ canceledCount = 0
  /\ erroredCount = 0
  /\ loaders = <<>>
  /\ overflow \in BOOLEAN
  /\ loaded = [u \in Urls |-> FALSE]
  /\ errorNotices = [u \in Urls |-> 0]
  /\ blobs = [u \in Urls |-> 0]
  /\ loadEvents = 0
  /\ enqueued = 0
  /\ lastOp = Op("new", 0)
  /\ staleCheck = FALSE
  /\ img = NewImg
  /\ requests = [r \in Requests |-> [ready |-> FALSE, rendered |-> FALSE]]

\* ------------------------------------------------------------ actions
SetNet(s) ==
  /\ imageQueue' = s.imageQueue
  /\ processes' = s.processes
  /\ loaders' = s.loaders

\* add(image) that checks the queue only, not the in-flight map
AddNoInFlightCheck(u) ==
  /\ lastOp' = Op("add", u)
  /\ IF loaded[u]
     THEN UNCHANGED <<imageQueue, processes, loaders, enqueued>>
     ELSE LET fresh == ~QueueHas(imageQueue, u)
              s == IF fresh
                   THEN [NetState EXCEPT !.imageQueue = Append(@, u)]
                   ELSE NetState
          IN /\ fresh => enqueued < MaxAdds
             /\ enqueued' = IF fresh THEN enqueued + 1 ELSE enqueued
             /\ SetNet(Update(s, maxProcesses, overflow))
  /\ UNCHANGED <<maxProcesses, loadedCount, canceledCount, erroredCount,
                 overflow, loaded, errorNotices, blobs, loadEvents>>
  /\ staleCheck' = FALSE
  /\ UNCHANGED <<img, requests>>

\* add(image) without the early return on image.loaded
AddIgnoresLoaded(u) ==
  /\ lastOp' = Op("add", u)
  /\ LET fresh == ~QueueHas(imageQueue, u) /\ ~ProcessesHas(processes, u)
         s == IF fresh
              THEN [NetState EXCEPT !.imageQueue = Append(@, u)]
              ELSE NetState
     IN /\ fresh => enqueued < MaxAdds
        /\ enqueued' = IF fresh THEN enqueued + 1 ELSE enqueued
        /\ SetNet(Update(s, maxProcesses, overflow))
  /\ UNCHANGED <<maxProcesses, loadedCount, canceledCount, erroredCount,
                 overflow, loaded, errorNotices, blobs, loadEvents>>
  /\ staleCheck' = FALSE
  /\ UNCHANGED <<img, requests>>

\* add(image)
Add(u) ==
  /\ lastOp' = Op("add", u)
  /\ IF loaded[u]
     THEN UNCHANGED <<imageQueue, processes, loaders, enqueued>>
     ELSE LET fresh == ~QueueHas(imageQueue, u) /\ ~ProcessesHas(processes, u)
              s == IF fresh
                   THEN [NetState EXCEPT !.imageQueue = Append(@, u)]
                   ELSE NetState
          IN /\ fresh => enqueued < MaxAdds
             /\ enqueued' = IF fresh THEN enqueued + 1 ELSE enqueued
             /\ SetNet(Update(s, maxProcesses, overflow))
  /\ UNCHANGED <<maxProcesses, loadedCount, canceledCount, erroredCount,
                 overflow, loaded, errorNotices, blobs, loadEvents>>
  /\ staleCheck' = FALSE
  /\ UNCHANGED <<img, requests>>

\* loader.abort(): a fetch that has not ended ends in abort, either inside
\* the call (sync) or as a later event; on an ended or aborting one: nothing
LoaderAbortCall(s, id, sync, max, ovf) ==
  IF s.loaders[id].state # "loading" THEN s
  ELSE IF sync THEN OnDone(s, id, "abort", max, ovf)
  ELSE [s EXCEPT !.loaders[id].state = "aborting"]

\* remove(image) that aborts the Loader but leaves the queue alone
RemoveNoDequeue(u, sync) ==
  /\ lastOp' = Op("remove", u)
  /\ LET s2 == IF ProcessesHas(processes, u)
               THEN LoaderAbortCall(NetState, processes[u], sync, maxProcesses, overflow)
               ELSE NetState
     IN SetNet(s2)
  /\ UNCHANGED <<maxProcesses, loadedCount, canceledCount, erroredCount,
                 overflow, loaded, errorNotices, blobs, loadEvents, enqueued>>
  /\ staleCheck' = FALSE
  /\ UNCHANGED <<img, requests>>

\* remove(image)
Remove(u, sync) ==
  /\ lastOp' = Op("remove", u)
  /\ LET s1 == IF QueueHas(imageQueue, u)
               THEN Update([NetState EXCEPT !.imageQueue = QueueDelete(@, u)],
                           maxProcesses, overflow)
               ELSE NetState
         s2 == IF ProcessesHas(s1.processes, u)
               THEN LoaderAbortCall(s1, s1.processes[u], sync, maxProcesses, overflow)
               ELSE s1
     IN SetNet(s2)
  /\ UNCHANGED <<maxProcesses, loadedCount, canceledCount, erroredCount,
                 overflow, loaded, errorNotices, blobs, loadEvents, enqueued>>
  /\ staleCheck' = FALSE
  /\ UNCHANGED <<img, requests>>

\* an abort handler that counts the abort as a failure
LoaderAbortCounted(id) ==
  /\ id \in 1..Len(loaders)
  /\ loaders[id].state = "aborting"
  /\ lastOp' = Op("abort", loaders[id].url)
  /\ erroredCount' = erroredCount + 1
  /\ SetNet(OnDone(NetState, id, "abort", maxProcesses, overflow))
  /\ UNCHANGED <<maxProcesses, loadedCount, canceledCount,
                 overflow, loaded, errorNotices, blobs, loadEvents, enqueued>>
  /\ staleCheck' = FALSE
  /\ UNCHANGED <<img, requests>>

\* loader.on("abort")
LoaderAbort(id) ==
  /\ id \in 1..Len(loaders)
  /\ loaders[id].state = "aborting"
  /\ lastOp' = Op("abort", loaders[id].url)
  /\ SetNet(OnDone(NetState, id, "abort", maxProcesses, overflow))
  /\ UNCHANGED <<maxProcesses, loadedCount, canceledCount, erroredCount,
                 overflow, loaded, errorNotices, blobs, loadEvents, enqueued>>
  /\ staleCheck' = FALSE
  /\ UNCHANGED <<img, requests>>

\* loader.on("error")
LoaderError(id) ==
  /\ id \in 1..Len(loaders)
  /\ loaders[id].state = "loading"
  /\ lastOp' = Op("error", loaders[id].url)
  /\ erroredCount' = erroredCount + 1
  /\ errorNotices' = [errorNotices EXCEPT ![loaders[id].url] = @ + 1]
  /\ SetNet(OnDone(NetState, id, "error", maxProcesses, overflow))
  /\ UNCHANGED <<maxProcesses, loadedCount, canceledCount,
                 overflow, loaded, blobs, loadEvents, enqueued>>
  /\ staleCheck' = FALSE
  /\ UNCHANGED <<img, requests>>

\* loader.on("timeout")
LoaderTimeout(id) ==
  /\ id \in 1..Len(loaders)
  /\ loaders[id].state = "loading"
  /\ lastOp' = Op("timeout", loaders[id].url)
  /\ erroredCount' = erroredCount + 1
  /\ SetNet(OnDone(NetState, id, "timeout", maxProcesses, overflow))
  /\ UNCHANGED <<maxProcesses, loadedCount, canceledCount, errorNotices,
                 overflow, loaded, blobs, loadEvents, enqueued>>
  /\ staleCheck' = FALSE
  /\ UNCHANGED <<img, requests>>

\* image.assignBlob(blob): the image holds its bytes and is loaded
assignBlob(ld, u) == [ld EXCEPT ![u] = TRUE]

\* loader.on("load")
LoaderLoad(id) ==
  /\ id \in 1..Len(loaders)
  /\ loaders[id].state = "loading"
  /\ lastOp' = Op("load", loaders[id].url)
  /\ loadedCount' = loadedCount + 1
  /\ SetNet(OnDone(NetState, id, "load", maxProcesses, overflow))
  /\ loaded' = assignBlob(loaded, loaders[id].url)
  /\ blobs' = [blobs EXCEPT ![loaders[id].url] = @ + 1]
  /\ loadEvents' = loadEvents + 1
  /\ UNCHANGED <<maxProcesses, canceledCount, erroredCount, errorNotices,
                 overflow, enqueued>>
  /\ staleCheck' = ConsultsMemory(
                     [NetState EXCEPT !.processes[loaders[id].url] = NoLoader],
                     maxProcesses)
  /\ img' = IF loaders[id].url = ImgUrl THEN deliverBlob(Fresh(img)) ELSE img
  /\ UNCHANGED requests

\* The Controller's memory bookkeeping changes its check-memory reply
MemoryChange ==
  /\ overflow' = ~overflow
  /\ lastOp' = Op("memory", 0)
  /\ UNCHANGED <<imageQueue, processes, maxProcesses, loadedCount, canceledCount,
                 erroredCount, loaders, loaded, errorNotices, blobs, loadEvents,
                 enqueued>>
  /\ staleCheck' = FALSE
  /\ UNCHANGED <<img, requests>>

Terminal ==
  \E id \in 1..MaxAdds :
    LoaderAbort(id) \/ LoaderError(id) \/ LoaderTimeout(id) \/ LoaderLoad(id)

Next ==
  \/ \E u \in Urls : Add(u)
  \/ \E u \in Urls, sync \in BOOLEAN : Remove(u, sync)
  \/ \E id \in 1..MaxAdds : LoaderAbort(id)
  \/ \E id \in 1..MaxAdds : LoaderError(id)
  \/ \E id \in 1..MaxAdds : LoaderTimeout(id)
  \/ \E id \in 1..MaxAdds : LoaderLoad(id)
  \/ MemoryChange

Spec == Init /\ [][Next]_vars

\* Every in-flight Loader eventually emits a terminal event; add, remove and
\* the Controller's memory changes are calls from outside and carry no fairness
FairSpec == Spec /\ WF_vars(Terminal)

NetFrame ==
  UNCHANGED <<imageQueue, processes, maxProcesses, loadedCount, canceledCount,
              erroredCount, loaders, overflow, loaded, errorNotices, blobs,
              loadEvents, enqueued>>

\* a caller registers request r on the image; a request registered on an
\* image whose size is known is ready to paint
ImgRegister(r) ==
  /\ img.subs[r] < MaxSubs
  /\ lastOp' = Op("register", r)
  /\ img' = registerRequest(Fresh(img), r)
  /\ requests' = [requests EXCEPT ![r].ready = @ \/ img.gotSize]
  /\ staleCheck' = FALSE
  /\ NetFrame

\* a caller unregisters request r
ImgUnregister(r) ==
  /\ lastOp' = Op("unregister", r)
  /\ img' = unregisterRequest(Fresh(img), r)
  /\ staleCheck' = FALSE
  /\ UNCHANGED requests
  /\ NetFrame

\* a caller clears the image
ImgClear ==
  /\ lastOp' = Op("clear", ImgUrl)
  /\ img' = clear(Fresh(img))
  /\ staleCheck' = FALSE
  /\ UNCHANGED requests
  /\ NetFrame

\* the view painted request r: markRendered() emits the request's "rendered"
MarkRendered(r) ==
  /\ requests[r].ready
  /\ ~requests[r].rendered
  /\ lastOp' = Op("rendered", r)
  /\ requests' = [requests EXCEPT ![r].rendered = TRUE]
  /\ img' = EmitRendered(Fresh(img), img.subs[r])
  /\ staleCheck' = FALSE
  /\ NetFrame

\* the hidden element reports a successful decode of natural size w x h;
\* the attached requests learn the size from the "size" event
ElementLoad(w, h) ==
  /\ img.decoding
  /\ lastOp' = Op("decoded", 0)
  /\ LET a == [Fresh(img) EXCEPT !.decoding = FALSE]
     IN /\ img' = IF a.onload THEN onBlobAssigned(a, [width |-> w, height |-> h]) ELSE a
        /\ requests' = [r \in Requests |->
             IF a.onload /\ a.listeners /\ r \in a.renderRequests
             THEN [requests[r] EXCEPT !.ready = TRUE] ELSE requests[r]]
  /\ staleCheck' = FALSE
  /\ NetFrame

\* the hidden element reports a failed decode
ElementError ==
  /\ img.decoding
  /\ lastOp' = Op("decode-error", 0)
  /\ LET a == [Fresh(img) EXCEPT !.decoding = FALSE]
     IN img' = IF a.onload THEN onBlobError(a) ELSE a
  /\ staleCheck' = FALSE
  /\ UNCHANGED requests
  /\ NetFrame

NextImg ==
  \/ Add(ImgUrl)
  \/ \E sync \in BOOLEAN : Remove(ImgUrl, sync)
  \/ \E id \in 1..MaxAdds : LoaderAbort(id)
  \/ \E id \in 1..MaxAdds : LoaderError(id)
  \/ \E id \in 1..MaxAdds : LoaderTimeout(id)
  \/ \E id \in 1..MaxAdds : LoaderLoad(id)
  \/ \E r \in Requests : ImgRegister(r)
  \/ \E r \in Requests : ImgUnregister(r)
  \/ ImgClear
  \/ \E r \in Requests : MarkRendered(r)
  \/ \E w, h \in Sides : ElementLoad(w, h)
  \/ ElementError

\* new Network(1) with memory under budget, and the image just constructed
InitImg == Init /\ maxProcesses = 1 /\ ~overflow

SpecImg == InitImg /\ [][NextImg]_vars

\* ------------------------------------------------------ claim helpers
LiveStates == {"loading", "aborting"}
EndStates == {"load", "error", "timeout", "abort"}

\* Loaders of url u that have not ended / that were ever constructed
Live(u) == {id \in 1..Len(loaders) : loaders[id].url = u /\ loaders[id].state \in LiveStates}
Started(u) == {id \in 1..Len(loaders) : loaders[id].url = u}

\* Occurrences of u in a queue
Occ(q, u) == Cardinality({i \in 1..Len(q) : q[i] = u})

IsPrefix(a, b) == Len(a) <= Len(b) /\ SubSeq(b, 1, Len(a)) = a
IsSuffix(a, b) == Len(a) <= Len(b) /\ SubSeq(b, Len(b) - Len(a) + 1, Len(b)) = a

\* This step constructs a Loader for u
StartsLoader(u) ==
  \E id \in 1..Len(loaders') : id > Len(loaders) /\ loaders'[id].url = u

\* This step handles a terminal event of loader id
Ends(id) ==
  /\ id \in 1..Len(loaders)
  /\ loaders[id].state \in LiveStates
  /\ loaders'[id].state \in EndStates

Counters == <<loadedCount, canceledCount, erroredCount>>

\* ------------------------------------------------------------- claims

\* C1: in every reachable state the number of in-flight loaders
\* (processes.size) is at most maxProcesses.
C1_InFlightBounded == ProcessesSize(processes) <= maxProcesses

\* C1 witness: the cap binds: two loaders in flight, an image still waiting
C1_Witness ==
  /\ maxProcesses = 2
  /\ ProcessesSize(processes) = 2
  /\ imageQueue # <<>>
  /\ ~overflow

\* C2: add deduplicates by url: at any time a url has at most one entry in
\* the queue or one live Loader, never both; an add of an image that is
\* already pending or in flight enqueues nothing and leaves the url with
\* exactly one pending entry or Loader.
C2_AddDedup ==
  /\ [](\A u \in Urls : Occ(imageQueue, u) + Cardinality(Live(u)) <= 1)
  /\ [][\A u \in Urls :
          (lastOp' = Op("add", u)
             /\ (QueueHas(imageQueue, u) \/ ProcessesHas(processes, u)))
          => /\ enqueued' = enqueued
             /\ Occ(imageQueue', u) + Cardinality(Live(u)') = 1
             /\ Cardinality(Started(u)') <=
                  Cardinality(Started(u)) + Occ(imageQueue, u)]_vars

\* C2 witness: add was called again for an image whose Loader is still in
\* flight (the Loader was started, then asked to abort, then add was called)
C2_Witness ==
  \E u \in Urls :
    /\ lastOp = Op("add", u)
    /\ ProcessesHas(processes, u)
    /\ loaders[processes[u]].state = "aborting"
    /\ ~QueueHas(imageQueue, u)
    /\ Cardinality(Started(u)) = 1

\* C3: once an image is loaded, add(image) changes neither the queue, the
\* in-flight map, the Loaders nor the counters; an image's Loader ends in
\* load at most once and its blob is delivered at most once.
C3_LoadedAddNoOp ==
  /\ [](\A u \in Urls :
          /\ blobs[u] <= 1
          /\ Cardinality({id \in Started(u) : loaders[id].state = "load"}) <= 1)
  /\ [][\A u \in Urls :
          (lastOp' = Op("add", u) /\ loaded[u])
          => UNCHANGED <<imageQueue, processes, loaders, Counters, enqueued>>]_vars

\* C3 witness: add was called on a loaded image while a slot was free
C3_Witness ==
  \E u \in Urls :
    /\ lastOp = Op("add", u)
    /\ loaded[u]
    /\ ~overflow
    /\ ProcessesSize(processes) < maxProcesses

\* C4: dispatch follows insertion order: when a step starts the Loader of a
\* pending image, every image ahead of it in the queue either is the one
\* being removed by this step or gets its Loader in the same step, earlier;
\* images that stay pending keep their order.
C4_FifoDispatch ==
  [][/\ \A i, j \in 1..Len(imageQueue) :
          (i < j /\ StartsLoader(imageQueue[j]))
          => \/ lastOp' = Op("remove", imageQueue[i])
             \/ /\ StartsLoader(imageQueue[i])
                /\ processes'[imageQueue[i]] < processes'[imageQueue[j]]
     /\ \A i, j \in 1..Len(imageQueue) :
          (i < j /\ QueueHas(imageQueue', imageQueue[i])
                 /\ QueueHas(imageQueue', imageQueue[j]))
          => \E k, l \in 1..Len(imageQueue') :
               k < l /\ imageQueue'[k] = imageQueue[i] /\ imageQueue'[l] = imageQueue[j]
    ]_vars

\* C4 witness: with one slot, a terminal event dispatched the head of a
\* queue that held at least two images
C4_Witness ==
  /\ maxProcesses = 1
  /\ lastOp.op \in EndStates
  /\ Len(loaders) >= 2
  /\ loaders[Len(loaders)].state = "loading"
  /\ imageQueue # <<>>

\* C5: while the check-memory reply is overflow no Loader is started: the
\* in-flight set does not grow and every pending image stays in the queue
\* in its position (a remove takes out its own image only, an add appends).
C5_OverflowPauses ==
  [][overflow =>
       /\ Len(loaders') = Len(loaders)
       /\ \A u \in Urls : ProcessesHas(processes', u) => ProcessesHas(processes, u)
       /\ LET kept == IF lastOp'.op = "remove"
                      THEN QueueDelete(imageQueue, lastOp'.url)
                      ELSE imageQueue
          IN IsPrefix(kept, imageQueue') /\ Len(imageQueue') <= Len(kept) + 1
    ]_vars

\* C5 witness: a terminal event re-entered the dispatch cycle under
\* overflow with a pending image and a free slot
C5_Witness ==
  /\ overflow
  /\ lastOp.op \in EndStates
  /\ imageQueue # <<>>
  /\ ProcessesSize(processes) < maxProcesses

\* C6: dispatch resumes after overflow clears: whenever the queue is
\* non-empty, fewer than maxProcesses loaders are in flight and memory is
\* not in overflow, a pending image is eventually dispatched without a
\* further add or remove (the claim lapses if overflow returns or the
\* queue is emptied by the caller).
C6_ResumesAfterOverflow ==
  \A n \in 0..MaxAdds :
    (/\ imageQueue # <<>>
     /\ ProcessesSize(processes) < maxProcesses
     /\ ~overflow
     /\ Len(loaders) = n)
    ~> (Len(loaders) > n \/ overflow \/ imageQueue = <<>>)

\* C7: every terminal event of an in-flight Loader frees the slot of its url
\* and re-enters the dispatch cycle: right after it the queue is empty, or
\* maxProcesses loaders are in flight, or check-memory reported overflow.
C7_TerminalRedispatches ==
  [][\A id \in 1..Len(loaders) :
       Ends(id)
       => /\ processes'[loaders[id].url] = NoLoader
          /\ \/ imageQueue' = <<>>
             \/ ProcessesSize(processes') = maxProcesses
             \/ overflow
    ]_vars

\* C7 witness: with one slot, a timeout freed the slot and the next pending
\* image was dispatched into it
C7_Witness ==
  /\ maxProcesses = 1
  /\ lastOp.op = "timeout"
  /\ Len(loaders) = 2
  /\ loaders[1].state = "timeout"
  /\ loaders[2].state = "loading"
  /\ processes[loaders[1].url] = NoLoader

\* C8: when an in-flight Loader ends in error or in timeout, erroredCount
\* grows by exactly one and the image is notified (image.onLoadError).
C8_FailureCountedAndNotified ==
  [][\A id \in 1..Len(loaders) :
       (Ends(id) /\ loaders'[id].state \in {"error", "timeout"})
       => /\ erroredCount' = erroredCount + 1
          /\ errorNotices'[loaders[id].url] = errorNotices[loaders[id].url] + 1
    ]_vars

\* C9: cancelling an in-flight fetch changes no counter: remove(image) on
\* an in-flight image aborts its Loader, and handling the abort frees the
\* slot while the counters keep their values and the image gets neither a
\* blob nor an error notification.
C9_AbortChangesNoCounter ==
  [][/\ \A u \in Urls :
          (lastOp' = Op("remove", u) /\ ProcessesHas(processes, u)
             /\ loaders[processes[u]].state = "loading")
          => loaders'[processes[u]].state \in {"aborting", "abort"}
     /\ \A id \in 1..Len(loaders) :
          (Ends(id) /\ loaders'[id].state = "abort")
          => /\ processes'[loaders[id].url] = NoLoader
             /\ UNCHANGED Counters
             /\ UNCHANGED <<blobs, errorNotices, loaded, loadEvents>>
     /\ \A id \in 1..Len(loaders) :
          loaders[id].state = "aborting" => loaders'[id].state \in {"aborting", "abort"}
    ]_vars

\* C9 witness: the abort of a removed in-flight image has been handled
C9_Witness ==
  \E id \in 1..Len(loaders) :
    /\ lastOp = Op("abort", loaders[id].url)
    /\ loaders[id].state = "abort"
    /\ processes[loaders[id].url] = NoLoader
    /\ loadedCount + erroredCount < Len(loaders)

\* C10: remove(image) on a pending image takes it out of the queue without
\* starting its Loader, and the other pending images keep their order; an
\* image enters the queue only by add, and a Loader is started only for an
\* image that is pending or being added.
C10_RemovePending ==
  [][/\ \A u \in Urls :
          (lastOp' = Op("remove", u) /\ QueueHas(imageQueue, u))
          => /\ ~QueueHas(imageQueue', u)
             /\ ~StartsLoader(u)
             /\ processes'[u] = NoLoader
             /\ IsSuffix(imageQueue', QueueDelete(imageQueue, u))
     /\ \A u \in Urls :
          (QueueHas(imageQueue', u) /\ ~QueueHas(imageQueue, u))
          => lastOp' = Op("add", u)
     /\ \A u \in Urls :
          StartsLoader(u)
          => \/ QueueHas(imageQueue, u) /\ lastOp' # Op("remove", u)
             \/ lastOp' = Op("add", u)
    ]_vars

\* C10 witness: of three images enqueued under overflow one was removed
\* while pending; the other two are still pending and none was dispatched
C10_Witness ==
  /\ lastOp.op = "remove"
  /\ ~QueueHas(imageQueue, lastOp.url)
  /\ enqueued = 3
  /\ Len(imageQueue) = 2
  /\ loaders = <<>>

\* C11 (claim as stated): in every reachable state of the Img, decoded
\* implies gotSize.
C11_DecodedImpliesGotSize == img.decoded => img.gotSize

\* C12 (claim as stated): bytesUncompressed > 0 exactly when decoded.
C12_BytesIffDecoded == (img.bytesUncompressed > 0) <=> img.decoded

\* C12 (amended): bytesUncompressed > 0 exactly when gotSize, for images of
\* non-zero natural size.
C12_BytesIffGotSize == (img.bytesUncompressed > 0) <=> img.gotSize

\* C12 witness: the size is known and counted, nothing is rendered yet
C12_Witness ==
  /\ img.gotSize
  /\ img.bytesUncompressed = getBytesVideo([width |-> MaxSide, height |-> 1])
  /\ ~img.decoded
  /\ lastOp.op = "decoded"

\* C13 (claim as stated): decoded equals the OR of the rendered flags of the
\* requests attached to the Img; after the last rendered request is
\* unregistered, or after clear(), decoded is false.
C13_DecodedIsOrOfRendered ==
  img.decoded <=> (\E r \in img.renderRequests : requests[r].rendered)

\* C14 (claim as stated): after clear() no blob URL created by the Img is
\* still live: every one has been revoked.
C14_BlobUrlsRevoked == img.cleared => \A url \in 1..img.urls : url \in img.revoked

\* C15 (claim as stated): clear() while the image's fetch is in flight
\* aborts the fetch, and no load or blob is produced for the cleared image.
C15_ClearAbortsFetch ==
  [][/\ (/\ lastOp' = Op("clear", ImgUrl)
         /\ ~img.cleared
         /\ ProcessesHas(processes, ImgUrl)
         /\ loaders[processes[ImgUrl]].state = "loading")
        => loaders'[processes[ImgUrl]].state \in {"aborting", "abort"}
     /\ img.cleared => blobs'[ImgUrl] = blobs[ImgUrl]
    ]_vars

C17_ClearIdempotent ==
  LET once == clear(Fresh(img))
      twice == clear(once)
  IN /\ twice = once
     /\ ~once.gotSize
     /\ once.bytesUncompressed = 0
     /\ once.renderRequests = {}
     /\ ~once.listeners

\* C17 witness: clear() was called on an image that was already cleared
\* after it had a size, a blob URL and a rendered request
C17_Witness ==
  /\ lastOp = Op("clear", ImgUrl)
  /\ img.cleared
  /\ img.delivered = <<>>
  /\ img.urls = 1
  /\ img.decoded
  /\ {"size", "clear"} \subseteq img.seen

\* registerRequest(r) followed by unregisterRequest(r) gives back the request
\* set, the subscriptions, gotSize, decoded and the byte totals
RoundTrip(r) ==
  LET t == unregisterRequest(registerRequest(img, r), r)
  IN /\ t.renderRequests = img.renderRequests
     /\ t.subs = img.subs
     /\ t.gotSize = img.gotSize
     /\ t.decoded = img.decoded
     /\ t.bytesUncompressed = img.bytesUncompressed
     /\ getBytesRam(t, 0) = getBytesRam(img, 0)

\* C18 (claim as stated): registering a request and immediately
\* unregistering it restores the state before, for every prior state,
\* also one where the request was already attached.
C18_RegisterUnregisterRestores == \A r \in Requests : RoundTrip(r)

\* C18 (amended): registering a request that is not attached and
\* immediately unregistering it restores the state before.
C18_RoundTripWhenNotAttached ==
  \A r \in Requests : r \notin img.renderRequests => RoundTrip(r)

\* C18 witness: a request was registered on an image of known size and
\* then unregistered; it is not attached and has no subscription left
C18_Witness ==
  \E r \in Requests :
    /\ lastOp = Op("unregister", r)
    /\ img.delivered = <<"render-request-removed">>
    /\ "render-request-added" \in img.seen
    /\ r \notin img.renderRequests
    /\ img.subs[r] = 0
    /\ img.gotSize

\* C19 (claim as stated): whenever a dispatch cycle consults check-memory,
\* every image whose Loader has ended in load has had its bytes delivered.
C19_MemoryCheckAfterBlob == ~staleCheck

\* C20: after clear() a late decode outcome of the hidden element has no
\* effect: gotSize stays false, bytesUncompressed stays 0 and neither size
\* nor blob-error is delivered.
C20_LateDecodeIgnored ==
  /\ [](img.cleared => ~img.gotSize /\ img.bytesUncompressed = 0)
  /\ [][(img.cleared /\ lastOp'.op \in {"decoded", "decode-error"} /\ img.decoding)
          => /\ ~img'.gotSize
             /\ img'.bytesUncompressed = 0
             /\ img'.delivered = <<>>
             /\ img'.seen = img.seen]_vars

\* C20 witness: the load ended, clear() ran before the element reported,
\* and then the element reported a successful decode
C20_Witness ==
  /\ lastOp.op = "decoded"
  /\ img.cleared
  /\ img.urls = 1
  /\ ~img.decoding
  /\ "size" \notin img.seen

\* C21 (claim as stated): once request r is no longer attached to the image
\* (after unregisterRequest(r), or after clear()), a later rendered event
\* from r neither sets decoded nor emits render-request-rendered, whatever
\* registerRequest and unregisterRequest calls came before, also when the
\* same request was registered more than once.
C21_DetachedRenderedIgnored ==
  [][\A r \in Requests :
       (lastOp' = Op("rendered", r) /\ r \notin img.renderRequests)
       => /\ img'.decoded = img.decoded
          /\ "render-request-rendered" \notin Range(img'.delivered)
    ]_vars

====
